---- MODULE Spec2Model ----
(***************************************************************************)
(* MyGit: the snapshot storage subsystem (object store, staging area,      *)
(* commit log, branch references) as the state machine its C code          *)
(* implements.  The durable state is the content of the files under        *)
(* .mygit/; every command (init, add, commit) is one action, translated    *)
(* from the handler that main() dispatches to.                             *)
(*                                                                         *)
(* Text is modelled as what the code writes and reads:                     *)
(*   - a file name is a sequence of characters;                            *)
(*   - a line of staging.dat is  text ++ decimal(num) ++ "\n";             *)
(*   - commits.dat is the sequence of chunks written to it (the header     *)
(*     of init, one chunk per save_commit), rendered to lines by           *)
(*     ChunkLines, and scanned line by line by get_next_commit_id.         *)
(***************************************************************************)
EXTENDS Integers, Sequences, FiniteSets, TLC

VARIABLES
    repo,       \* TRUE when the directory .mygit exists
    objects,    \* .mygit/objects: fingerprint -> content of <fingerprint>.blob
    staging,    \* .mygit/staging.dat: [present, lines]
    commits,    \* .mygit/commits.dat: [present, chunks]
    HEAD,       \* .mygit/HEAD: [present, name]
    refs,       \* .mygit/refs: branch name -> commit id written in refs/<name>
    blobWrites, \* history: fingerprint -> number of write_file calls on its blob
    last,       \* history: the command that ran last and what it returned
    procs       \* the commands in progress: process -> position and locals

vars == <<repo, objects, staging, commits, HEAD, refs, blobWrites, last, procs>>

disk == <<repo, objects, staging, commits, HEAD, refs>>

-----------------------------------------------------------------------------
(* Bounds of the model.                                                    *)

\* add runs while staging.dat holds at most this many lines (Spec)
MaxStagingLines == 2

\* commit runs while commits.dat holds fewer records than this (Spec)
MaxCommits == 3

\* the same bounds for SpecStage
StageMaxLines == 2

StageMaxCommits == 1

\* the same bounds for SpecBlob
BlobMaxLines == 2

BlobMaxCommits == 1

\* the same bounds for SpecCap: one line more than the header and
\* MAX_COMMIT_FILES entries
CapMaxLines == 11

CapMaxCommits == 2

\* the same bounds for SpecIO
IoMaxLines == 2

IoMaxCommits == 2

\* SpecHash: the working file holds at most HashMaxLen bytes, or
\* HashLongLen times the byte z
HashMaxLen == 2

HashLongLen == 12

\* the same bounds for SpecHash
HashMaxLines == 2

HashMaxCommits == 1

\* add runs in SpecHash while the object store holds at most this many blobs
HashMaxBlobs == 1

\* the same bounds as MaxStagingLines and MaxCommits for SpecCrash
CrashMaxLines == 2

CrashMaxCommits == 3

\* the same bounds for SpecRecover
RecoverMaxLines == 2

RecoverMaxCommits == 3

\* the same bounds for SpecRace
RaceMaxLines == 1

RaceMaxCommits == 2

\* an add starts in SpecStageRace while staging.dat holds at most this many
\* lines
StageRaceMaxLines == 4

\* the same bounds for SpecPipe
PipeMaxLines == 2

PipeMaxCommits == 2

\* the bounds of SpecLarge: add runs while staging.dat holds at most
\* LargeMaxLines lines, a name is staged again once LargeRestageFrom
\* entries are staged, commit runs while staging.dat holds at most
\* LargeCommitLines lines and commits.dat fewer than LargeMaxCommits records
LargeMaxLines == 102

LargeRestageFrom == 100

LargeCommitLines == 2

LargeMaxCommits == 1

\* the same bounds for SpecNoFile
NoFileMaxLines == 2

NoFileMaxCommits == 1

\* the same bounds for SpecOrder
OrderMaxLines == 3

OrderMaxCommits == 1

\* the same bounds for SpecNoStage
NsMaxLines == 2

NsMaxCommits == 1

\* add runs in SpecIO while no blob was written more often than this
IoMaxWrites == 1

-----------------------------------------------------------------------------
(* Program constants.                                                      *)

\* char filenames[10][MAX_FILENAME]; unsigned long file_hashes[10]
MAX_COMMIT_FILES == 10

\* #define MAX_CONTENT 10000
MAX_CONTENT == 10000

\* seed of the djb2 hash
HASH_SEED == 5381

\* unsigned long is HASH_LIMBS limbs of 16 bits (LP64: 64 bits)
HASH_LIMBS == 4

LIMB_BASE == 65536

\* int is 32 bits
INT_MAX == 2147483647

INT_MIN == (-2147483647) - 1

\* char is a signed type of 8 bits on the same build
CHAR_MAX == 127

UCHAR_MAX == 255

-----------------------------------------------------------------------------
(* Inputs: the arguments of the commands and the working directory.        *)

\* argv[2] of add: two ordinary names, and a name that starts with the
\* comment character of staging.dat
FileNames ==
    { <<"a">>, <<"b">>, <<"#", "a">> }

\* what the working file holds when add reads it: "aa", "b@" (the same djb2
\* value as "aa"), "a", and "a\0b" (a NUL byte inside)
FileBytes ==
    { <<97, 97>>, <<98, 64>>, <<97>>, <<97, 0, 98>> }

NoFile == [present |-> FALSE, bytes |-> <<>>]

WorkingFiles == {NoFile} \cup {[present |-> TRUE, bytes |-> b] : b \in FileBytes}

\* one line of text of commits.dat as sscanf(line, "COMMIT:%d", &id) sees it
TextLine(t) == [tag |-> t, isnum |-> FALSE, num |-> 0]

NumLine(t, n) == [tag |-> t, isnum |-> TRUE, num |-> n]

\* argv[2] of commit: a message is a sequence of lines; a one line message,
\* and messages whose second line reads COMMIT:<n>
Messages ==
    { << TextLine("m") >>,
      << TextLine("m"), NumLine("COMMIT:", 7) >>,
      << TextLine("m"), NumLine("COMMIT:", INT_MAX) >> }

PlainMessage == << TextLine("m") >>

\* the inputs of add in Spec, in SpecStage and in SpecBlob
ChainNames == { <<"a">> }

BlobNames == { <<"a">>, <<"b">> }

ChainFiles == { [present |-> TRUE, bytes |-> <<97>>] }

StageFiles == { NoFile, [present |-> TRUE, bytes |-> <<97>>],
                [present |-> TRUE, bytes |-> <<97, 97>>] }

\* names the HEAD file may hold
Branches == {"main", "dev"}

-----------------------------------------------------------------------------
(* utils.c                                                                 *)

Min(a, b) == IF a <= b THEN a ELSE b

\* hash = ((hash << 5) + hash) + c on an unsigned long kept as HASH_LIMBS
\* limbs of 16 bits, least significant first; the carry out of the last limb
\* is dropped, which is the arithmetic modulo 2^(16 * HASH_LIMBS)
RECURSIVE hash_step_limbs(_, _, _, _)
hash_step_limbs(hash, i, carry, acc) ==
    IF i > HASH_LIMBS THEN acc
    ELSE LET v == hash[i] * 33 + carry
         IN  hash_step_limbs(hash, i + 1, v \div LIMB_BASE,
                             Append(acc, v % LIMB_BASE))

hash_step(hash, c) == hash_step_limbs(hash, 1, c, <<>>)

\* the unsigned long whose value is n, for 0 <= n < LIMB_BASE
ULong(n) == [i \in 1..HASH_LIMBS |-> IF i = 1 THEN n ELSE 0]

\* int c = *content++: the value of the char that holds byte b
CharToInt(b) == IF b > CHAR_MAX THEN b - (UCHAR_MAX + 1) ELSE b

RECURSIVE hash_loop(_, _, _)
hash_loop(content, i, hash) ==
    IF i > Len(content) THEN hash
    ELSE LET next == hash_step(hash, CharToInt(content[i]))
         IN  \* the test makes each iteration compute its hash before the
             \* next one starts, as the loop does; it is always true
             IF Len(next) = HASH_LIMBS THEN hash_loop(content, i + 1, next)
             ELSE next

\* unsigned long hash_content(const char* content): content is a C string,
\* the bytes before the terminating NUL
hash_content(content) == hash_loop(content, 1, ULong(HASH_SEED))

\* the C string a buffer holds: the bytes before the first NUL
RECURSIVE CString(_)
CString(bytes) ==
    IF bytes = <<>> \/ Head(bytes) = 0 THEN <<>>
    ELSE <<Head(bytes)>> \o CString(Tail(bytes))

\* int read_file(path, buffer, max_size): -1 when fopen fails, else the
\* first max_size - 1 bytes of the file, NUL terminated
read_file(file, max_size) ==
    IF ~file.present THEN [ret |-> -1, buffer |-> <<>>]
    ELSE LET n == Min(Len(file.bytes), max_size - 1)
         IN  [ret |-> n, buffer |-> CString(SubSeq(file.bytes, 1, n))]

\* int file_exists(path)
file_exists(file) == IF file.present THEN 1 ELSE 0

-----------------------------------------------------------------------------
(* The text of staging.dat.  A line is  text ++ decimal(num) ++ "\n", where *)
(* num = NoNum stands for no digits at all.  The characters of a file name *)
(* are never digits, so the digits of a line are those of its num.         *)

NoNum == <<>>

Line(text, num) == [text |-> text, num |-> num]

\* "# MyGit Staging Area\n"
STAGING_HEADER == Line(<<"#", " ">>, NoNum)

\* fprintf(fp, "%s|%lu\n", filename, hash)
EntryLine(filename, hash) == Line(filename \o <<"|">>, hash)

\* line[0] == '#'
IsComment(line) == line.text # <<>> /\ line.text[1] = "#"

\* strlen(line) == 0 once the newline is cut off
IsEmpty(line) == line.text = <<>> /\ line.num = NoNum

\* the maximal runs of characters other than '|', in order
RECURSIVE Pieces(_, _, _)
Pieces(text, cur, acc) ==
    IF text = <<>> THEN (IF cur = <<>> THEN acc ELSE Append(acc, cur))
    ELSE IF Head(text) = "|"
         THEN Pieces(Tail(text), <<>>, IF cur = <<>> THEN acc ELSE Append(acc, cur))
         ELSE Pieces(Tail(text), Append(cur, Head(text)), acc)

\* the tokens strtok(line, "|"), strtok(NULL, "|"), ... return before NULL;
\* the digits form a token of their own unless they follow a character
\* other than '|'
Tokens(line) ==
    LET ps   == Pieces(line.text, <<>>, <<>>)
        toks == [i \in 1..Len(ps) |-> Line(ps[i], NoNum)]
    IN  IF line.num = NoNum THEN toks
        ELSE IF line.text = <<>> \/ line.text[Len(line.text)] = "|"
             THEN Append(toks, Line(<<>>, line.num))
             ELSE [toks EXCEPT ![Len(ps)] = Line(ps[Len(ps)], line.num)]

\* strcmp(token, filename) == 0
SameName(token, filename) == token = Line(filename, NoNum)

\* strtoul(token, NULL, 10): the digits at the start of the token, 0 when it
\* starts with another character
strtoul(token) == IF token.text = <<>> THEN token.num ELSE ULong(0)

-----------------------------------------------------------------------------
(* add.c                                                                   *)

\* save_blob without its write_file call: a faulty variant
save_blob_unwritten(objs, content, hash) ==
    [ret |-> 0, objects |-> objs, wrote |-> FALSE]

\* save_blob whose write_file creates the blob file and writes none of the
\* content: a faulty variant
save_blob_hollow(objs, content, hash) ==
    IF hash \in DOMAIN objs
    THEN [ret |-> 0, objects |-> objs, wrote |-> FALSE]
    ELSE [ret |-> 0, objects |-> objs @@ (hash :> <<>>), wrote |-> TRUE]

\* save_blob without its file_exists check: a faulty variant
save_blob_unchecked(objs, content, hash) ==
    [ret |-> 0,
     objects |-> [h \in DOMAIN objs \cup {hash} |->
                    IF h = hash THEN content ELSE objs[h]],
     wrote |-> TRUE]

\* int save_blob(content, hash): the object store afterwards, and whether
\* write_file was called
save_blob(objs, content, hash) ==
    IF hash \in DOMAIN objs
    THEN [ret |-> 0, objects |-> objs, wrote |-> FALSE]
    ELSE [ret |-> 0, objects |-> objs @@ (hash :> content), wrote |-> TRUE]

\* int is_already_staged(filename)
is_already_staged(stg, filename) ==
    IF ~stg.present THEN 0
    ELSE IF \E i \in 1..Len(stg.lines) :
               LET line == stg.lines[i]
               IN  /\ ~IsComment(line)
                   /\ ~IsEmpty(line)
                   /\ Tokens(line) # <<>>
                   /\ SameName(Tokens(line)[1], filename)
         THEN 1 ELSE 0

\* the lines remove_from_staging copies into lines[]
KeptLines(lines, filename) ==
    SelectSeq(lines,
              LAMBDA line : \/ Tokens(line) = <<>>
                            \/ ~SameName(Tokens(line)[1], filename))

\* char lines[100][MAX_LINE] of remove_from_staging
LINES_CAPACITY == 100

\* remove_from_staging copies more lines than lines[] has room for: its
\* strcpy writes past the end of the array, which is undefined
lines_overflow(stg, filename) ==
    stg.present /\ Len(KeptLines(stg.lines, filename)) > LINES_CAPACITY

\* void remove_from_staging(filename), while lines[] has room
remove_from_staging(stg, filename) ==
    IF ~stg.present THEN stg
    ELSE [present |-> TRUE, lines |-> KeptLines(stg.lines, filename)]

\* append_staging that takes the older entries of filename out in the same
\* operation: a variant the code does not have
append_staging_replacing(stg, filename, hash) ==
    [present |-> TRUE,
     lines   |-> (IF stg.present THEN KeptLines(stg.lines, filename) ELSE <<>>)
                 \o <<[text |-> filename \o <<"|">>, num |-> hash]>>]

\* append_staging with fopen(STAGING_FILE, "r+"), which creates no file: a
\* faulty variant
append_staging_existing(stg, filename, hash) ==
    IF ~stg.present THEN stg
    ELSE [present |-> TRUE,
          lines   |-> stg.lines \o <<[text |-> filename \o <<"|">>,
                                      num |-> hash]>>]

\* fopen(STAGING_FILE, "a"); fprintf(fp, "%s|%lu\n", filename, hash)
append_staging(stg, filename, hash) ==
    [present |-> TRUE,
     lines   |-> (IF stg.present THEN stg.lines ELSE <<>>)
                 \o <<EntryLine(filename, hash)>>]

-----------------------------------------------------------------------------
(* The text of commits.dat.  The file is the sequence of chunks written to *)
(* it: the header line of init and one chunk per save_commit.              *)

\* fprintf(fp, "# MyGit Commit History\n")
HEADER_CHUNK == [kind |-> "header"]

IsCommit(chunk) == chunk.kind = "commit"

\* the Commit struct as mygit_commit fills it in before save_commit
CommitChunk(id, message, branch, parent_id, filenames, file_hashes) ==
    [kind |-> "commit", id |-> id, message |-> message, branch |-> branch,
     parent_id |-> parent_id, filenames |-> filenames,
     file_hashes |-> file_hashes]

\* fprintf(fp, "MSG:%s\n", message): the first line of the message follows
\* "MSG:", the others are lines of the file as they stand
MessageLines(message) ==
    <<TextLine("MSG:")>> \o (IF message = <<>> THEN <<>> ELSE Tail(message))

\* the lines a chunk is in the file, as far as "COMMIT:%d" can tell them
\* apart
ChunkLines(chunk) ==
    IF ~IsCommit(chunk) THEN <<TextLine("#")>>
    ELSE <<NumLine("COMMIT:", chunk.id)>>
         \o MessageLines(chunk.message)
         \o <<TextLine("TIME:"), TextLine("BRANCH:"),
              NumLine("PARENT:", chunk.parent_id), TextLine("FILES:"),
              TextLine("HASHES:"), TextLine("END")>>

RECURSIVE FileLines(_)
FileLines(chunks) ==
    IF chunks = <<>> THEN <<>>
    ELSE ChunkLines(Head(chunks)) \o FileLines(Tail(chunks))

\* the commit records of the file, in the order they were appended
Records(cf) == SelectSeq(cf.chunks, IsCommit)

\* sscanf(line, "COMMIT:%d", &id) == 1
ScansAsCommit(line) == line.tag = "COMMIT:" /\ line.isnum

RECURSIVE MaxOf(_, _)
MaxOf(lines, max_id) ==
    IF lines = <<>> THEN max_id
    ELSE MaxOf(Tail(lines),
               IF ScansAsCommit(Head(lines)) /\ Head(lines).num > max_id
               THEN Head(lines).num ELSE max_id)

\* int get_next_commit_id(void): the values the call may return.  max_id + 1
\* on an int equal to INT_MAX is a signed overflow: the build either wraps
\* to INT_MIN or traps (trap |-> TRUE: the process is killed)
get_next_commit_id(cf) ==
    IF ~cf.present THEN {[trap |-> FALSE, id |-> 1]}
    ELSE LET max_id == MaxOf(FileLines(cf.chunks), 0)
         IN  IF max_id = INT_MAX
             THEN {[trap |-> FALSE, id |-> INT_MIN], [trap |-> TRUE, id |-> 0]}
             ELSE {[trap |-> FALSE, id |-> max_id + 1]}

\* char* get_current_branch(buffer, size)
get_current_branch(head) == IF head.present THEN head.name ELSE "main"

-----------------------------------------------------------------------------
(* commit.c                                                                *)

\* the lines count_staged_files counts and read_staged_files parses
IsEntry(line) == ~IsComment(line) /\ ~IsEmpty(line)

\* count_staged_files without the test for comments: a faulty variant
count_all_lines(stg) ==
    IF ~stg.present THEN 0 ELSE Len(stg.lines)

\* int count_staged_files(void)
count_staged_files(stg) ==
    IF ~stg.present THEN 0
    ELSE Len(SelectSeq(stg.lines, IsEntry))

\* the loop of read_staged_files without the test of file_count: a faulty
\* variant (the arrays of Commit have MAX_COMMIT_FILES slots)
RECURSIVE read_staged_uncapped(_, _, _)
read_staged_uncapped(lines, filenames, file_hashes) ==
    IF lines = <<>> THEN [filenames |-> filenames, file_hashes |-> file_hashes]
    ELSE LET line == Head(lines)
             toks == Tokens(line)
         IN  IF IsEntry(line) /\ Len(toks) >= 2
             THEN read_staged_uncapped(Tail(lines),
                                       Append(filenames, toks[1]),
                                       Append(file_hashes, strtoul(toks[2])))
             ELSE read_staged_uncapped(Tail(lines), filenames, file_hashes)

\* the loop of read_staged_files over the lines left, from a struct that
\* holds the names and hashes read so far
RECURSIVE read_staged_loop(_, _, _)
read_staged_loop(lines, filenames, file_hashes) ==
    IF lines = <<>> THEN [filenames |-> filenames, file_hashes |-> file_hashes]
    ELSE LET line == Head(lines)
             toks == Tokens(line)
         IN  IF ~IsEntry(line)
             THEN read_staged_loop(Tail(lines), filenames, file_hashes)
             ELSE IF Len(filenames) >= MAX_COMMIT_FILES
             THEN [filenames |-> filenames, file_hashes |-> file_hashes]
             ELSE IF Len(toks) >= 2
             THEN read_staged_loop(Tail(lines),
                                   Append(filenames, toks[1]),
                                   Append(file_hashes, strtoul(toks[2])))
             ELSE read_staged_loop(Tail(lines), filenames, file_hashes)

\* int read_staged_files(Commit* commit)
read_staged_files(stg) ==
    IF ~stg.present
    THEN [ret |-> -1, filenames |-> <<>>, file_hashes |-> <<>>]
    ELSE LET r == read_staged_loop(stg.lines, <<>>, <<>>)
         IN  [ret |-> 0, filenames |-> r.filenames,
              file_hashes |-> r.file_hashes]

\* get_last_commit_id_on_branch reading refs/main whatever the branch: a
\* faulty variant
get_last_commit_id_on_main(rf, branch) ==
    IF "main" \in DOMAIN rf THEN rf["main"] ELSE 0

\* int get_last_commit_id_on_branch(branch): atoi of what update_branch_ref
\* or init printed with "%d", 0 when refs/<branch> cannot be read
get_last_commit_id_on_branch(rf, branch) ==
    IF branch \in DOMAIN rf THEN rf[branch] ELSE 0

\* save_commit with fopen(COMMITS_FILE, "w"): a faulty variant
save_commit_truncating(cf, commit) ==
    [present |-> TRUE, chunks |-> <<commit>>]

\* int save_commit(Commit* commit): fopen(COMMITS_FILE, "a") and the fprintfs
save_commit(cf, commit) ==
    [present |-> TRUE,
     chunks  |-> (IF cf.present THEN cf.chunks ELSE <<>>) \o <<commit>>]

\* update_branch_ref with the path refs/main: a faulty variant
update_branch_ref_main(rf, branch, commit_id) ==
    [b \in DOMAIN rf \cup {"main"} |-> IF b = "main" THEN commit_id ELSE rf[b]]

\* update_branch_ref writing every file of refs: a faulty variant
update_branch_ref_all(rf, branch, commit_id) ==
    [b \in DOMAIN rf \cup {branch} |-> commit_id]

\* void update_branch_ref(branch, commit_id)
update_branch_ref(rf, branch, commit_id) ==
    [b \in DOMAIN rf \cup {branch} |-> IF b = branch THEN commit_id ELSE rf[b]]

\* clear_staging_area without its fopen(STAGING_FILE, "w"): a faulty variant
clear_staging_area_kept(stg) == stg

\* void clear_staging_area(void)
clear_staging_area(stg) == [present |-> TRUE, lines |-> <<STAGING_HEADER>>]

\* step 7 without the test for "no commit yet": a faulty variant
parent_unchecked(last_id) == last_id

\* parent_id of the new commit (mygit_commit, step 7)
parent_of(last_id) == IF last_id = 0 THEN -1 ELSE last_id

-----------------------------------------------------------------------------
(* The commands.  Every command runs to completion before the next starts  *)
(* (single writer), and no call of the C library fails.                    *)

NoObjects == [h \in {} |-> <<>>]

NoWrites == [h \in {} |-> 0]

Absent == [present |-> FALSE, lines |-> <<>>]

\* the processes that may run a command step by step
Procs == {1, 2}

\* a process that runs no command
Idle == [pc |-> "idle"]

\* the file operations that may fail, one at most per command
NoFault == "none"

\* fopen / read_file / write_file of mygit_add, in the order of the code;
\* "read_file" is the fopen of read_file, "fread" its fread (a read error,
\* or a directory: fopen succeeds and fread reads nothing)
AddFaults ==
    { "file_exists", "read_file", "fread", "blob_exists", "blob_write",
      "staged_open", "remove_read", "remove_write", "append_open" }

\* those on the working file
ReadFaults == { "file_exists", "read_file", "fread" }

\* the same of mygit_commit
CommitFaults ==
    { "count_open", "next_id_open", "head_read", "ref_read", "staged_read",
      "save_open", "ref_write", "clear_open" }

Result(op, ret) ==
    [op |-> op, ret |-> ret, trap |-> FALSE, name |-> <<>>, content |-> <<>>,
     wrote |-> FALSE, fault |-> NoFault]

Init ==
    /\ repo = FALSE
    /\ objects = NoObjects
    /\ staging = Absent
    /\ commits = [present |-> FALSE, chunks |-> <<>>]
    /\ HEAD = [present |-> FALSE, name |-> ""]
    /\ refs = [b \in {} |-> 0]
    /\ blobWrites = NoWrites
    /\ last = Result("none", 0)
    /\ procs = [p \in Procs |-> Idle]

\* main() for a command other than init, outside a repository
NotARepository(op) ==
    /\ ~repo
    /\ last' = Result(op, 1)
    /\ UNCHANGED <<repo, objects, staging, commits, HEAD, refs, blobWrites, procs>>

\* the file operations of mygit_init that may fail once .mygit is made
InitFaults == { "head_write", "commits_open", "staging_open", "ref_write" }

\* mygit_init without its directory_exists test: a faulty variant that
\* writes the files of a fresh repository over those that are there
mygit_init_unchecked(f) ==
    /\ UNCHANGED <<objects, blobWrites, procs>>
    /\ repo' = TRUE
    /\ last' = Result("init", 0)
    /\ HEAD' = [present |-> TRUE, name |-> "main"]
    /\ commits' = [present |-> TRUE, chunks |-> <<HEADER_CHUNK>>]
    /\ staging' = [present |-> TRUE, lines |-> <<STAGING_HEADER>>]
    /\ refs' = [b \in DOMAIN refs \cup {"main"} |->
                 IF b = "main" THEN 0 ELSE refs[b]]

\* int mygit_init(void), where the file operation f fails (NoFault: none
\* does): a failed write of HEAD returns -1, the other failures are not
\* looked at
mygit_init_io(f) ==
    /\ UNCHANGED <<objects, blobWrites, procs>>
    /\ IF repo
       THEN /\ last' = Result("init", 0)
            /\ UNCHANGED <<repo, staging, commits, HEAD, refs>>
       ELSE /\ repo' = TRUE
            /\ IF f = "head_write"
               THEN /\ last' = [Result("init", -1) EXCEPT !.fault = f]
                    /\ UNCHANGED <<staging, commits, HEAD, refs>>
               ELSE /\ last' = [Result("init", 0) EXCEPT !.fault = f]
                    /\ HEAD' = [present |-> TRUE, name |-> "main"]
                    /\ commits' = IF f = "commits_open" THEN commits
                                  ELSE [present |-> TRUE,
                                        chunks |-> <<HEADER_CHUNK>>]
                    /\ staging' = IF f = "staging_open" THEN staging
                                  ELSE [present |-> TRUE,
                                        lines |-> <<STAGING_HEADER>>]
                    /\ refs' = IF f = "ref_write" THEN refs
                               ELSE [b \in {"main"} |-> 0]

\* int mygit_init(void), every file operation succeeding
mygit_init == mygit_init_io(NoFault)

\* the object store as file_exists(blob_path) sees it when fopen fails for
\* the blob of hash
Hidden(objs, hash) == [h \in DOMAIN objs \ {hash} |-> objs[h]]

\* step 5 of mygit_add up to the fopen for append: the entry of filename is
\* removed if is_already_staged finds it; under fault f, is_already_staged
\* returns 0 when its fopen fails and remove_from_staging returns early
\* when one of its fopens fails
unstage(stg, filename, f) ==
    IF /\ f \notin {"staged_open", "remove_read", "remove_write"}
       /\ is_already_staged(stg, filename) = 1
    THEN remove_from_staging(stg, filename)
    ELSE stg

\* the staging file once mygit_add has staged filename with hash (step 5)
stage(stg, filename, hash) ==
    append_staging(unstage(stg, filename, NoFault), filename, hash)

\* blobWrites after one more write_file call on the blob of hash
Written(bw, hash) ==
    [h \in DOMAIN bw \cup {hash} |->
        IF h = hash THEN (IF h \in DOMAIN bw THEN bw[h] ELSE 0) + 1
        ELSE bw[h]]

\* int mygit_add(filename), the working file being file, where the file
\* operation f fails (NoFault: none does).  When remove_from_staging writes
\* past lines[] the process is killed, before staging.dat is rewritten or
\* after it: the two outcomes builds of the program show
mygit_add_io(filename, file, f) ==
    /\ repo
    /\ UNCHANGED <<repo, commits, HEAD, refs, procs>>
    /\ IF file_exists(file) = 0 \/ f = "file_exists"
       THEN /\ last' = [Result("add", -1) EXCEPT
                          !.name = filename,
                          !.fault = IF f = "file_exists" /\ file.present
                                    THEN f ELSE NoFault]
            /\ UNCHANGED <<objects, staging, blobWrites>>
       ELSE LET rd      == IF f = "read_file"
                           THEN [ret |-> -1, buffer |-> <<>>]
                           ELSE IF f = "fread"
                           THEN [ret |-> 0, buffer |-> <<>>]
                           ELSE read_file(file, MAX_CONTENT)
                content == rd.buffer
                hash    == hash_content(content)
                seen    == IF f = "blob_exists" THEN Hidden(objects, hash)
                           ELSE objects
                sb      == save_blob(seen, content, hash)
                wfail   == sb.wrote /\ f = "blob_write"
                stg     == unstage(staging, filename, f)
                over    == /\ f \notin {"staged_open", "remove_read",
                                         "remove_write"}
                           /\ is_already_staged(staging, filename) = 1
                           /\ lines_overflow(staging, filename)
                hit     == \/ f = "fread"
                           \/ f = "blob_exists" /\ hash \in DOMAIN objects
                           \/ f = "staged_open" /\ staging.present
                           \/ /\ f \in {"remove_read", "remove_write"}
                              /\ is_already_staged(staging, filename) = 1
            IN  IF rd.ret < 0 \/ sb.ret # 0 \/ wfail
                THEN /\ last' = [Result("add", -1) EXCEPT
                                   !.name = filename,
                                   !.fault = IF rd.ret < 0 \/ wfail
                                             THEN f ELSE NoFault]
                     /\ UNCHANGED <<objects, staging, blobWrites>>
                ELSE /\ objects' = sb.objects @@ objects
                     /\ blobWrites' = IF sb.wrote
                                      THEN Written(blobWrites, hash)
                                      ELSE blobWrites
                     /\ IF over
                        THEN /\ staging' \in {staging, stg}
                             /\ last' = [Result("add", -1) EXCEPT
                                            !.name = filename,
                                            !.trap = TRUE]
                        ELSE IF f = "append_open"
                        THEN /\ staging' = stg
                             /\ last' = [Result("add", -1) EXCEPT
                                            !.name = filename, !.fault = f]
                        ELSE /\ staging' = append_staging(stg, filename, hash)
                             /\ last' = [Result("add", 0) EXCEPT
                                            !.name = filename,
                                            !.content = content,
                                            !.wrote = sb.wrote,
                                            !.fault = IF hit THEN f
                                                      ELSE NoFault]

\* int mygit_add(filename), every file operation succeeding
mygit_add(filename, file) == mygit_add_io(filename, file, NoFault)

\* int mygit_commit(message), where the file operation f fails (NoFault:
\* none does); a file whose fopen fails is read as a file that is not there
mygit_commit_io(message, f) ==
    /\ repo
    /\ UNCHANGED <<repo, objects, HEAD, blobWrites, procs>>
    /\ IF count_staged_files(IF f = "count_open" THEN Absent ELSE staging) = 0
       THEN /\ last' = [Result("commit", -1) EXCEPT
                          !.fault = IF f = "count_open" /\ staging.present
                                    THEN f ELSE NoFault]
            /\ UNCHANGED <<staging, commits, refs>>
       ELSE \E next \in get_next_commit_id(
                            IF f = "next_id_open"
                            THEN [present |-> FALSE, chunks |-> <<>>]
                            ELSE commits) :
              LET branch  == get_current_branch(
                                 IF f = "head_read"
                                 THEN [present |-> FALSE, name |-> ""]
                                 ELSE HEAD)
                  last_id == get_last_commit_id_on_branch(
                                 IF f = "ref_read" THEN [b \in {} |-> 0]
                                 ELSE refs, branch)
                  rs      == read_staged_files(
                                 IF f = "staged_read" THEN Absent ELSE staging)
                  commit  == CommitChunk(next.id, message, branch,
                                         parent_of(last_id), rs.filenames,
                                         rs.file_hashes)
                  hit     == \/ f = "next_id_open" /\ commits.present
                             \/ f = "head_read" /\ HEAD.present
                             \/ f = "ref_read" /\ branch \in DOMAIN refs
                             \/ f \in {"ref_write", "clear_open"}
              IN  IF next.trap
                  THEN /\ last' = [Result("commit", -1) EXCEPT !.trap = TRUE]
                       /\ UNCHANGED <<staging, commits, refs>>
                  ELSE IF rs.ret # 0 \/ f = "save_open"
                  THEN /\ last' = [Result("commit", -1) EXCEPT !.fault = f]
                       /\ UNCHANGED <<staging, commits, refs>>
                  ELSE /\ commits' = save_commit(commits, commit)
                       /\ refs' = IF f = "ref_write" THEN refs
                                  ELSE update_branch_ref(refs, branch, commit.id)
                       /\ staging' = IF f = "clear_open" THEN staging
                                     ELSE clear_staging_area(staging)
                       /\ last' = [Result("commit", 0) EXCEPT
                                      !.fault = IF hit THEN f ELSE NoFault]

\* int mygit_commit(message), every file operation succeeding
mygit_commit(message) == mygit_commit_io(message, NoFault)

\* the current branch indicator is set from outside the core (branch and
\* checkout commands): the HEAD file names branch b
set_current_branch(b) ==
    /\ repo
    /\ HEAD' = [present |-> TRUE, name |-> b]
    /\ last' = Result("checkout", 0)
    /\ UNCHANGED <<repo, objects, staging, commits, refs, blobWrites, procs>>

StagingLines == IF staging.present THEN staging.lines ELSE <<>>

\* the guards that keep the files of the model bounded: add runs while
\* staging.dat holds at most n lines, commit while commits.dat holds fewer
\* than n records or no entry is staged (the commit appends nothing)
LinesBelow(n) == Len(StagingLines) <= n

RecordsBelow(n) ==
    \/ Len(Records(commits)) < n
    \/ SelectSeq(StagingLines, IsEntry) = <<>>

Outside == \E op \in {"add", "commit"} : NotARepository(op)

(* The commit chain: one working file, every message, every branch.        *)

Add ==
    /\ LinesBelow(MaxStagingLines)
    /\ \E filename \in ChainNames, file \in ChainFiles : mygit_add(filename, file)

Commit ==
    /\ RecordsBelow(MaxCommits)
    /\ \E message \in Messages : mygit_commit(message)

Checkout == \E b \in Branches : set_current_branch(b)

Next ==
    \/ mygit_init
    \/ Add
    \/ Commit
    \/ Checkout
    \/ Outside

Spec == Init /\ [][Next]_vars

(* The staging area: every file name, two fingerprints, one branch.        *)

AddStage ==
    /\ LinesBelow(StageMaxLines)
    /\ \E filename \in FileNames, file \in StageFiles : mygit_add(filename, file)

CommitStage ==
    /\ RecordsBelow(StageMaxCommits)
    /\ mygit_commit(PlainMessage)

NextStage ==
    \/ mygit_init
    \/ AddStage
    \/ CommitStage
    \/ Outside

SpecStage == Init /\ [][NextStage]_vars

(* The object store: two file names, every content of the working file.     *)

AddBlob ==
    /\ LinesBelow(BlobMaxLines)
    /\ \E filename \in BlobNames, file \in WorkingFiles : mygit_add(filename, file)

CommitBlob ==
    /\ RecordsBelow(BlobMaxCommits)
    /\ mygit_commit(PlainMessage)

NextBlob ==
    \/ mygit_init
    \/ AddBlob
    \/ CommitBlob
    \/ Outside

SpecBlob == Init /\ [][NextBlob]_vars

(* The capacity of a commit: file names f, ff, fff, ... staged one after    *)
(* the other, one content.                                                 *)

\* the k-th file name: k times the character f
CapName(k) == [i \in 1..k |-> "f"]

StagedEntries == SelectSeq(StagingLines, IsEntry)

\* the working file of the k-th name: k bytes, so that no two of them have
\* the same content
CapFile(k) == [present |-> TRUE, bytes |-> [i \in 1..k |-> 97]]

AddCap ==
    /\ LinesBelow(CapMaxLines)
    /\ LET k == Len(StagedEntries) + 1
       IN  mygit_add(CapName(k), CapFile(k))

CommitCap ==
    /\ RecordsBelow(CapMaxCommits)
    /\ mygit_commit(PlainMessage)

NextCap ==
    \/ mygit_init
    \/ AddCap
    \/ CommitCap
    \/ Outside

SpecCap == Init /\ [][NextCap]_vars

(* File operations that fail: one file name, two contents, one branch; in  *)
(* every command at most one fopen, read_file or write_file fails.         *)

IoFiles == { [present |-> TRUE, bytes |-> <<97>>],
             [present |-> TRUE, bytes |-> <<97, 97>>] }

WritesBelow(n) == \A h \in DOMAIN blobWrites : blobWrites[h] <= n

AddIO ==
    /\ LinesBelow(IoMaxLines)
    /\ WritesBelow(IoMaxWrites)
    /\ \E filename \in ChainNames, file \in IoFiles,
          f \in AddFaults \cup {NoFault} :
          mygit_add_io(filename, file, f)

CommitIO ==
    /\ RecordsBelow(IoMaxCommits)
    /\ \E f \in CommitFaults \cup {NoFault} :
          mygit_commit_io(PlainMessage, f)

NextIO ==
    \/ mygit_init
    \/ AddIO
    \/ CommitIO
    \/ Outside

SpecIO == Init /\ [][NextIO]_vars

(* A repository without staging.dat: init may fail to create the file.     *)

InitNoStage == \E f \in {NoFault, "staging_open"} : mygit_init_io(f)

AddNoStage ==
    /\ LinesBelow(NsMaxLines)
    /\ \E filename \in BlobNames, file \in StageFiles : mygit_add(filename, file)

CommitNoStage ==
    /\ RecordsBelow(NsMaxCommits)
    /\ mygit_commit(PlainMessage)

NextNoStage ==
    \/ InitNoStage
    \/ AddNoStage
    \/ CommitNoStage
    \/ Outside

SpecNoStage == Init /\ [][NextNoStage]_vars

(* The fingerprint: working files of bytes below and above CHAR_MAX, and   *)
(* one long enough for the hash to exceed the width of unsigned long.      *)

\* the bytes a, z and 0xC8
HashBytes == {97, 122, 200}

RECURSIVE SeqsUpTo(_, _)
SeqsUpTo(S, n) ==
    IF n = 0 THEN {<<>>}
    ELSE LET shorter == SeqsUpTo(S, n - 1)
         IN  shorter \cup {Append(s, x) : s \in shorter, x \in S}

HashFiles ==
    { [present |-> TRUE, bytes |-> b] :
        b \in SeqsUpTo(HashBytes, HashMaxLen)
               \cup {[i \in 1..HashLongLen |-> 122]} }

AddHash ==
    /\ LinesBelow(HashMaxLines)
    /\ Cardinality(DOMAIN objects) <= HashMaxBlobs
    /\ \E filename \in BlobNames, file \in HashFiles : mygit_add(filename, file)

CommitHash ==
    /\ RecordsBelow(HashMaxCommits)
    /\ mygit_commit(PlainMessage)

NextHash ==
    \/ mygit_init
    \/ AddHash
    \/ CommitHash
    \/ Outside

SpecHash == Init /\ [][NextHash]_vars

(* File names that hold the separator of staging.dat.                      *)

\* "a", "a|b" and "|"
PipeNames == { <<"a">>, <<"a", "|", "b">>, <<"|">> }

AddPipe ==
    /\ LinesBelow(PipeMaxLines)
    /\ \E filename \in PipeNames, file \in ChainFiles : mygit_add(filename, file)

CommitPipe ==
    /\ RecordsBelow(PipeMaxCommits)
    /\ mygit_commit(PlainMessage)

NextPipe ==
    \/ mygit_init
    \/ AddPipe
    \/ CommitPipe
    \/ Outside

SpecPipe == Init /\ [][NextPipe]_vars

(* A staging area of more lines than lines[] of remove_from_staging holds: *)
(* the names aa, ab, ..., ba, bb, ... are staged one after the other, and  *)
(* the first of them is staged again when the staging area is large.       *)

LargeLetters == <<"a", "b", "c", "d", "e", "f", "g", "h", "i", "j", "k", "l">>

\* the k-th file name: two letters
LargeName(k) ==
    << LargeLetters[((k - 1) \div Len(LargeLetters)) + 1],
       LargeLetters[((k - 1) % Len(LargeLetters)) + 1] >>

AddLarge ==
    /\ LinesBelow(LargeMaxLines)
    /\ \E file \in ChainFiles :
          \/ mygit_add(LargeName(Len(StagedEntries) + 1), file)
          \/ /\ Len(StagedEntries) >= LargeRestageFrom
             /\ mygit_add(LargeName(1), file)

CommitLarge ==
    /\ LinesBelow(LargeCommitLines)
    /\ RecordsBelow(LargeMaxCommits)
    /\ mygit_commit(PlainMessage)

NextLarge ==
    \/ mygit_init
    \/ AddLarge
    \/ CommitLarge
    \/ Outside

SpecLarge == Init /\ [][NextLarge]_vars

(* Working files that are missing or cannot be read.                       *)

AddNoFile ==
    /\ LinesBelow(NoFileMaxLines)
    /\ \E filename \in BlobNames, file \in StageFiles,
          f \in ReadFaults \cup {NoFault} : mygit_add_io(filename, file, f)

CommitNoFile ==
    /\ RecordsBelow(NoFileMaxCommits)
    /\ mygit_commit(PlainMessage)

NextNoFile ==
    \/ mygit_init
    \/ AddNoFile
    \/ CommitNoFile
    \/ Outside

SpecNoFile == Init /\ [][NextNoFile]_vars

(* Re-staging: two ordinary names, two contents, a staging file long       *)
(* enough to hold both names when one of them is staged again.             *)

AddOrder ==
    /\ LinesBelow(OrderMaxLines)
    /\ \E filename \in BlobNames, file \in IoFiles : mygit_add(filename, file)

CommitOrder ==
    /\ RecordsBelow(OrderMaxCommits)
    /\ mygit_commit(PlainMessage)

NextOrder ==
    \/ mygit_init
    \/ AddOrder
    \/ CommitOrder
    \/ Outside

SpecOrder == Init /\ [][NextOrder]_vars

-----------------------------------------------------------------------------
(* mygit_commit step by step: one step per file operation, so that the     *)
(* process can be killed, or another process can run, between two of them. *)

\* the element that follows pc in order
step_after(order, pc) ==
    order[(CHOOSE i \in 1..Len(order) : order[i] = pc) + 1]

\* mygit_commit calling update_branch_ref before save_commit: a faulty
\* variant
mygit_commit_ref_first(pc) ==
    step_after(<<"next_id", "head", "last_id", "read_staged", "ref_open",
                 "ref_write", "save", "clear_open", "clear_write", "return">>,
               pc)

\* the file operation of mygit_commit that follows pc
mygit_commit_step(pc) ==
    step_after(<<"next_id", "head", "last_id", "read_staged", "save",
                 "ref_open", "ref_write", "clear_open", "clear_write",
                 "return">>, pc)

\* the locals of mygit_commit when it starts
CommitLocals(message) ==
    [pc |-> "next_id", op |-> "commit", message |-> message, id |-> 0,
     branch |-> "", last_id |-> 0, filenames |-> <<>>, file_hashes |-> <<>>]

At(p, pc) == procs[p].pc = pc

Goto(p, pc) == [procs EXCEPT ![p].pc = pc]

NoneRunning == \A p \in Procs : At(p, "idle")

\* process p returns ret from its command
Return(p, ret) ==
    /\ last' = Result(procs[p].op, ret)
    /\ procs' = [procs EXCEPT ![p] = Idle]

\* main and step 1 of mygit_commit: count_staged_files
commit_count(p, message) ==
    /\ At(p, "idle")
    /\ repo
    /\ IF count_staged_files(staging) = 0
       THEN /\ last' = Result("commit", -1)
            /\ UNCHANGED procs
       ELSE /\ procs' = [procs EXCEPT ![p] = CommitLocals(message)]
            /\ UNCHANGED last
    /\ UNCHANGED <<disk, blobWrites>>

\* step 2: commit.id = get_next_commit_id()
commit_next_id(p) ==
    /\ At(p, "next_id")
    /\ \E next \in get_next_commit_id(commits) :
         IF next.trap
         THEN /\ last' = [Result("commit", -1) EXCEPT !.trap = TRUE]
              /\ procs' = [procs EXCEPT ![p] = Idle]
         ELSE /\ procs' = [procs EXCEPT
                             ![p].id = next.id,
                             ![p].pc = mygit_commit_step("next_id")]
              /\ UNCHANGED last
    /\ UNCHANGED <<disk, blobWrites>>

\* step 5: get_current_branch
commit_head(p) ==
    /\ At(p, "head")
    /\ procs' = [procs EXCEPT ![p].branch = get_current_branch(HEAD),
                              ![p].pc = mygit_commit_step("head")]
    /\ UNCHANGED <<disk, blobWrites, last>>

\* step 6: get_last_commit_id_on_branch
commit_last_id(p) ==
    /\ At(p, "last_id")
    /\ procs' = [procs EXCEPT
                   ![p].last_id =
                       get_last_commit_id_on_branch(refs, procs[p].branch),
                   ![p].pc = mygit_commit_step("last_id")]
    /\ UNCHANGED <<disk, blobWrites, last>>

\* step 8: read_staged_files
commit_read_staged(p) ==
    /\ At(p, "read_staged")
    /\ LET rs == read_staged_files(staging)
       IN  IF rs.ret # 0
           THEN Return(p, -1)
           ELSE /\ procs' = [procs EXCEPT
                               ![p].filenames = rs.filenames,
                               ![p].file_hashes = rs.file_hashes,
                               ![p].pc = mygit_commit_step("read_staged")]
                /\ UNCHANGED last
    /\ UNCHANGED <<disk, blobWrites>>

\* step 9: save_commit, from fopen to fclose
commit_save(p) ==
    /\ At(p, "save")
    /\ LET l == procs[p]
       IN  commits' = save_commit(commits,
                          CommitChunk(l.id, l.message, l.branch,
                                      parent_of(l.last_id), l.filenames,
                                      l.file_hashes))
    /\ procs' = Goto(p, mygit_commit_step("save"))
    /\ UNCHANGED <<repo, objects, staging, HEAD, refs, blobWrites, last>>

\* step 10, update_branch_ref: the fopen(path, "w") of write_file leaves
\* refs/<branch> empty, which atoi reads as 0
commit_ref_open(p) ==
    /\ At(p, "ref_open")
    /\ refs' = update_branch_ref(refs, procs[p].branch, 0)
    /\ procs' = Goto(p, mygit_commit_step("ref_open"))
    /\ UNCHANGED <<repo, objects, staging, commits, HEAD, blobWrites, last>>

\* step 10, update_branch_ref: fprintf and fclose of write_file
commit_ref_write(p) ==
    /\ At(p, "ref_write")
    /\ refs' = update_branch_ref(refs, procs[p].branch, procs[p].id)
    /\ procs' = Goto(p, mygit_commit_step("ref_write"))
    /\ UNCHANGED <<repo, objects, staging, commits, HEAD, blobWrites, last>>

\* step 11, clear_staging_area: fopen(STAGING_FILE, "w") leaves the file
\* empty
commit_clear_open(p) ==
    /\ At(p, "clear_open")
    /\ staging' = [present |-> TRUE, lines |-> <<>>]
    /\ procs' = Goto(p, mygit_commit_step("clear_open"))
    /\ UNCHANGED <<repo, objects, commits, HEAD, refs, blobWrites, last>>

\* step 11, clear_staging_area: fprintf and fclose
commit_clear_write(p) ==
    /\ At(p, "clear_write")
    /\ staging' = clear_staging_area(staging)
    /\ procs' = Goto(p, mygit_commit_step("clear_write"))
    /\ UNCHANGED <<repo, objects, commits, HEAD, refs, blobWrites, last>>

\* return 0
commit_return(p) ==
    /\ At(p, "return")
    /\ Return(p, 0)
    /\ UNCHANGED <<disk, blobWrites>>

\* the steps of mygit_commit after the first
commit_steps(p) ==
    \/ commit_next_id(p)
    \/ commit_head(p)
    \/ commit_last_id(p)
    \/ commit_read_staged(p)
    \/ commit_save(p)
    \/ commit_ref_open(p)
    \/ commit_ref_write(p)
    \/ commit_clear_open(p)
    \/ commit_clear_write(p)
    \/ commit_return(p)

\* the process is killed (or the machine stops) between two file operations
Crash(p) ==
    /\ ~At(p, "idle")
    /\ procs' = [procs EXCEPT ![p] = Idle]
    /\ last' = Result("crash", 0)
    /\ UNCHANGED <<disk, blobWrites>>

(* One user whose commits may be killed at any point.                      *)

AddCrash ==
    /\ NoneRunning
    /\ LinesBelow(CrashMaxLines)
    /\ \E filename \in ChainNames, file \in ChainFiles : mygit_add(filename, file)

CommitCrash ==
    /\ RecordsBelow(CrashMaxCommits)
    /\ commit_count(1, PlainMessage)

CheckoutCrash == NoneRunning /\ Checkout

NextCrash ==
    \/ mygit_init
    \/ AddCrash
    \/ CommitCrash
    \/ commit_steps(1)
    \/ Crash(1)
    \/ CheckoutCrash
    \/ Outside

SpecCrash == Init /\ [][NextCrash]_vars

(* The same user with every message, on one branch: what the commit after  *)
(* a crash finds.                                                          *)

AddRecover ==
    /\ NoneRunning
    /\ LinesBelow(RecoverMaxLines)
    /\ \E filename \in ChainNames, file \in ChainFiles : mygit_add(filename, file)

CommitRecover ==
    /\ RecordsBelow(RecoverMaxCommits)
    /\ \E message \in Messages : commit_count(1, message)

NextRecover ==
    \/ mygit_init
    \/ AddRecover
    \/ CommitRecover
    \/ commit_steps(1)
    \/ Crash(1)
    \/ Outside

SpecRecover == Init /\ [][NextRecover]_vars

(* Two processes that commit at the same time.                             *)

AddRace ==
    /\ LinesBelow(RaceMaxLines)
    /\ \E filename \in ChainNames, file \in ChainFiles : mygit_add(filename, file)

CommitRace(p) ==
    /\ RecordsBelow(RaceMaxCommits)
    /\ commit_count(p, PlainMessage)

NextRace ==
    \/ mygit_init
    \/ AddRace
    \/ \E p \in Procs : CommitRace(p) \/ commit_steps(p)
    \/ Outside

SpecRace == Init /\ [][NextRace]_vars

-----------------------------------------------------------------------------
(* mygit_add step by step: one step for the work on the working file and   *)
(* the object store (steps 1 to 4), then one step per file operation on    *)
(* staging.dat.                                                            *)

\* the locals of mygit_add once save_blob is done
AddLocals(filename, content, hash) ==
    [pc |-> "is_staged", op |-> "add", name |-> filename,
     content |-> content, hash |-> hash, kept |-> <<>>]

\* a process whose last command, an add of filename, returned 0
Staged(filename, hash) ==
    [pc |-> "idle", op |-> "add", name |-> filename, hash |-> hash]

\* main and steps 1 to 4 of mygit_add: file_exists, read_file, hash_content,
\* save_blob
add_blob(p, filename, file) ==
    /\ At(p, "idle")
    /\ repo
    /\ UNCHANGED <<repo, staging, commits, HEAD, refs>>
    /\ IF file_exists(file) = 0
       THEN /\ last' = [Result("add", -1) EXCEPT !.name = filename]
            /\ UNCHANGED <<objects, blobWrites, procs>>
       ELSE LET rd      == read_file(file, MAX_CONTENT)
                content == rd.buffer
                hash    == hash_content(content)
                sb      == save_blob(objects, content, hash)
            IN  IF rd.ret < 0 \/ sb.ret # 0
                THEN /\ last' = [Result("add", -1) EXCEPT !.name = filename]
                     /\ UNCHANGED <<objects, blobWrites, procs>>
                ELSE /\ objects' = sb.objects
                     /\ blobWrites' = IF sb.wrote
                                      THEN Written(blobWrites, hash)
                                      ELSE blobWrites
                     /\ procs' = [procs EXCEPT
                                     ![p] = AddLocals(filename, content, hash)]
                     /\ UNCHANGED last

\* step 5: if (is_already_staged(filename))
add_is_staged(p) ==
    /\ At(p, "is_staged")
    /\ procs' = Goto(p, IF is_already_staged(staging, procs[p].name) = 1
                        THEN "remove_read" ELSE "append")
    /\ UNCHANGED <<disk, blobWrites, last>>

\* remove_from_staging, from fopen(STAGING_FILE, "r") to fclose: the lines
\* of the other names are copied into lines[]
add_remove_read(p) ==
    /\ At(p, "remove_read")
    /\ procs' = IF ~staging.present THEN Goto(p, "append")
                ELSE IF lines_overflow(staging, procs[p].name)
                THEN [procs EXCEPT ![p] = Idle]
                ELSE [procs EXCEPT
                        ![p].kept = KeptLines(staging.lines, procs[p].name),
                        ![p].pc = "remove_write"]
    /\ UNCHANGED <<disk, blobWrites, last>>

\* remove_from_staging, from fopen(STAGING_FILE, "w") to fclose: lines[] is
\* written back
add_remove_write(p) ==
    /\ At(p, "remove_write")
    /\ staging' = [present |-> TRUE, lines |-> procs[p].kept]
    /\ procs' = Goto(p, "append")
    /\ UNCHANGED <<repo, objects, commits, HEAD, refs, blobWrites, last>>

\* fopen(STAGING_FILE, "a"), fprintf, fclose and return 0
add_append(p) ==
    /\ At(p, "append")
    /\ staging' = append_staging(staging, procs[p].name, procs[p].hash)
    /\ last' = [Result("add", 0) EXCEPT !.name = procs[p].name,
                                        !.content = procs[p].content]
    /\ procs' = [procs EXCEPT ![p] = Staged(procs[p].name, procs[p].hash)]
    /\ UNCHANGED <<repo, objects, commits, HEAD, refs, blobWrites>>

\* the steps of mygit_add after the first
add_steps(p) ==
    \/ add_is_staged(p)
    \/ add_remove_read(p)
    \/ add_remove_write(p)
    \/ add_append(p)

(* Two processes that stage at the same time.                              *)

AddStageRace(p) ==
    /\ LinesBelow(StageRaceMaxLines)
    /\ \E filename \in BlobNames, file \in IoFiles : add_blob(p, filename, file)

NextStageRace ==
    \/ mygit_init
    \/ \E p \in Procs : AddStageRace(p) \/ add_steps(p)
    \/ Outside

SpecStageRace == Init /\ [][NextStageRace]_vars

-----------------------------------------------------------------------------
(* Properties.                                                             *)

IsPrefix(s, t) == Len(s) <= Len(t) /\ SubSeq(t, 1, Len(s)) = s

\* the lines of staging.dat that stage wrote for filename
LinesFor(filename) ==
    { i \in 1..Len(StagingLines) :
        /\ StagingLines[i].text = filename \o <<"|">>
        /\ StagingLines[i].num # NoNum }

AddSucceeded == last.op = "add" /\ last.ret = 0

CommitSucceeded == last.op = "commit" /\ last.ret = 0

\* C1: the staging area holds at most one entry per file name, and after
\* staging a file its only entry carries the fingerprint just staged
C1_OneEntryPerName ==
    /\ \A f \in FileNames : Cardinality(LinesFor(f)) <= 1
    /\ AddSucceeded =>
         \E i \in LinesFor(last.name) :
            /\ LinesFor(last.name) = {i}
            /\ StagingLines[i].num = hash_content(last.content)

\* C2: while every commit was made on one branch of a freshly initialised
\* repository, the k-th record has id k, and parent k - 1 (-1 for k = 1)
C2_IdsOneToN ==
    LET recs == Records(commits)
    IN  (\A i, j \in 1..Len(recs) : recs[i].branch = recs[j].branch) =>
            \A k \in 1..Len(recs) :
               /\ recs[k].id = k
               /\ recs[k].parent_id = IF k = 1 THEN -1 ELSE k - 1

\* C3: the ids of the records strictly increase in the order they were
\* appended, whatever their branches
C3_IdsIncrease ==
    LET recs == Records(commits)
    IN  \A i, j \in 1..Len(recs) : i < j => recs[i].id < recs[j].id

\* C4: a commit that finds no staged entry returns -1 and leaves the commit
\* log, the branch heads and the staging area as they were
C4_EmptyCommitRejected ==
    [][ ( /\ repo
          /\ last'.op = "commit"
          /\ SelectSeq(StagingLines, IsEntry) = <<>> )
        => ( /\ last'.ret = -1
             /\ commits' = commits
             /\ refs' = refs
             /\ staging' = staging
             /\ objects' = objects
             /\ HEAD' = HEAD ) ]_vars

C4_Witness ==
    /\ last.op = "commit"
    /\ last.ret = -1
    /\ Records(commits) # <<>>
    /\ Len(StagingLines) > 1
    /\ SelectSeq(StagingLines, IsEntry) = <<>>

\* the id of the record appended last with branch b, 0 when there is none
RECURSIVE LastIdOn(_, _)
LastIdOn(recs, b) ==
    IF recs = <<>> THEN 0
    ELSE IF recs[Len(recs)].branch = b THEN recs[Len(recs)].id
    ELSE LastIdOn(SubSeq(recs, 1, Len(recs) - 1), b)

\* C5: between commands the head of every branch is the id of the record
\* appended last with that branch, 0 when the branch has no record
C5_HeadIsLastCommit ==
    \A b \in Branches :
        get_last_commit_id_on_branch(refs, b) = LastIdOn(Records(commits), b)

C5_Witness ==
    /\ CommitSucceeded
    /\ LastIdOn(Records(commits), "main") # 0
    /\ LastIdOn(Records(commits), "dev") # 0
    /\ LastIdOn(Records(commits), get_current_branch(HEAD))
         = Records(commits)[Len(Records(commits))].id

\* C6: the parent_id of a record is -1 when no earlier record has its
\* branch, and else the id of the latest earlier record of its branch
C6_ParentIsEarlierCommit ==
    LET recs == Records(commits)
    IN  \A k \in 1..Len(recs) :
           LET before == LastIdOn(SubSeq(recs, 1, k - 1), recs[k].branch)
           IN  /\ recs[k].parent_id =
                     IF \E j \in 1..(k - 1) : recs[j].branch = recs[k].branch
                     THEN before ELSE -1
               /\ \/ recs[k].parent_id = -1
                  \/ \E j \in 1..(k - 1) : recs[j].id = recs[k].parent_id

C6_Witness ==
    LET recs == Records(commits)
    IN  /\ Len(recs) = 3
        /\ recs[1].branch # recs[2].branch
        /\ recs[3].parent_id = recs[1].id
        /\ recs[2].parent_id = -1

\* C7: whatever the command, the chunks commits.dat held before it are a
\* prefix of the chunks it holds afterwards
C7_LogAppendOnly ==
    [][ commits.present =>
          /\ commits'.present
          /\ IsPrefix(commits.chunks, commits'.chunks) ]_vars

C7_Witness ==
    /\ CommitSucceeded
    /\ Len(Records(commits)) >= 2

C9_OneWritePerBlob ==
    /\ DOMAIN blobWrites = DOMAIN objects
    /\ \A h \in DOMAIN objects : blobWrites[h] = 1
    /\ AddSucceeded => hash_content(last.content) \in DOMAIN objects

\* the content put last was in the store already: a second put
C9_Witness ==
    /\ AddSucceeded
    /\ ~last.wrote
    /\ objects[hash_content(last.content)] = last.content
    /\ Len(StagingLines) > 2

\* C10: no command removes a blob or changes what it holds
C10_BlobsWriteOnce ==
    [][ \A h \in DOMAIN objects :
          h \in DOMAIN objects' /\ objects'[h] = objects[h] ]_vars

\* a content with the fingerprint of a stored blob was put, and the blob
\* holds what it held
C10_Witness ==
    /\ AddSucceeded
    /\ ~last.wrote
    /\ objects[hash_content(last.content)] # last.content

\* the lines of staging.dat that mygit_add wrote: "<filename>|<hash>"
StagedLines == SelectSeq(StagingLines, LAMBDA l : l.num # NoNum)

\* the file name and the fingerprint of such a line
NameOf(line) == SubSeq(line.text, 1, Len(line.text) - 1)

LastRecord(cf) == Records(cf)[Len(Records(cf))]

\* C11: the record a successful commit appends holds the file names and
\* fingerprints staged when it started, all of them, in staging order
C11_CommitCapturesStaged ==
    [][ (last'.op = "commit" /\ last'.ret = 0) =>
          LET rec == LastRecord(commits')
              stg == StagedLines
          IN  /\ Len(rec.filenames) = Len(stg)
              /\ Len(rec.file_hashes) = Len(stg)
              /\ \A i \in 1..Len(stg) :
                    /\ rec.filenames[i] = Line(NameOf(stg[i]), NoNum)
                    /\ rec.file_hashes[i] = stg[i].num ]_vars

\* C12: a successful commit leaves no staged entry, so that a commit right
\* after it is rejected; a commit that fails leaves staging.dat as it was;
\* and no other command empties a staging area that holds entries
C12_ClearedIffCommitted ==
    [][ /\ (last'.op = "commit" /\ last'.ret = 0) =>
              /\ count_staged_files(staging') = 0
              /\ StagedLines' = <<>>
        /\ (last'.op = "commit" /\ last'.ret # 0) => staging' = staging
        /\ (CommitSucceeded /\ last'.op = "commit") => last'.ret = -1
        /\ (StagedLines # <<>> /\ ~(last'.op = "commit" /\ last'.ret = 0)) =>
              StagedLines' # <<>> ]_vars

C12_Witness ==
    /\ CommitSucceeded
    /\ StagingLines = <<STAGING_HEADER>>
    /\ LastRecord(commits).filenames # <<>>
    /\ LastRecord(commits).id > 1

\* refs/<b> as a file: whether it exists and what it holds
RefFile(rf, b) ==
    IF b \in DOMAIN rf THEN [present |-> TRUE, id |-> rf[b]]
    ELSE [present |-> FALSE, id |-> 0]

\* C13: a commit changes the head of no branch but the current one, and add
\* changes no head
C13_HeadsIndependent ==
    [][ /\ last'.op = "commit" =>
              \A b \in Branches \ {get_current_branch(HEAD)} :
                 RefFile(refs', b) = RefFile(refs, b)
        /\ last'.op = "add" => refs' = refs ]_vars

C13_Witness ==
    /\ CommitSucceeded
    /\ get_current_branch(HEAD) = "dev"
    /\ RefFile(refs, "main").id > 0
    /\ RefFile(refs, "dev").id > RefFile(refs, "main").id

\* C14: an add or a commit in which a file operation failed returns a
\* failure and leaves the object store, staging.dat, commits.dat and refs
\* as they were
C14_IOFailureAborts ==
    [][ (last'.op \in {"add", "commit"} /\ last'.fault # NoFault) =>
          /\ last'.ret # 0
          /\ objects' = objects
          /\ staging' = staging
          /\ commits' = commits
          /\ refs' = refs ]_vars

\* C15: in a repository without staging.dat nothing counts as staged, a
\* commit returns -1 and changes no file, and an add that succeeds leaves
\* staging.dat with one line, the entry of the file added
C15_MissingStagingIsEmpty ==
    [][ (repo /\ ~staging.present) =>
          /\ count_staged_files(staging) = 0
          /\ last'.op = "commit" =>
                /\ last'.ret = -1
                /\ disk' = disk
          /\ (last'.op = "add" /\ last'.ret # 0) => disk' = disk
          /\ (last'.op = "add" /\ last'.ret = 0) =>
                /\ staging'.present
                /\ staging'.lines =
                      <<EntryLine(last'.name, hash_content(last'.content))>> ]_vars

C15_Witness ==
    /\ AddSucceeded
    /\ staging.present
    /\ Len(staging.lines) = 1
    /\ staging.lines[1] = EntryLine(last.name, hash_content(last.content))

\* C16: while every record is on the one branch main, the walk from the
\* head of main along parent_id passes the records from the last to the
\* first, each once, with strictly decreasing ids, and ends at -1
C16_WalkDescends ==
    LET recs == Records(commits)
        n    == Len(recs)
    IN  (n > 0 /\ \A k \in 1..n : recs[k].branch = "main") =>
            /\ get_last_commit_id_on_branch(refs, "main") = recs[n].id
            /\ recs[1].parent_id = -1
            /\ \A k \in 2..n :
                  /\ recs[k].parent_id = recs[k - 1].id
                  /\ recs[k].id > recs[k - 1].id

\* h * 33 + byte modulo 2^64 on a number kept as 2 * HASH_LIMBS digits of
\* base UCHAR_MAX + 1, least significant first
RECURSIVE FoldStep(_, _, _, _)
FoldStep(h, i, carry, acc) ==
    IF i > 2 * HASH_LIMBS THEN acc
    ELSE LET v == h[i] * 33 + carry
         IN  FoldStep(h, i + 1, v \div (UCHAR_MAX + 1),
                      Append(acc, v % (UCHAR_MAX + 1)))

FoldByte(h, byte) == FoldStep(h, 1, byte, <<>>)

\* the fold of h := h * 33 + byte over the bytes from the i-th on, from h
RECURSIVE Fold(_, _, _)
Fold(bytes, i, h) ==
    IF i > Len(bytes) THEN h
    ELSE LET next == FoldByte(h, bytes[i])
         IN  IF Len(next) = 2 * HASH_LIMBS THEN Fold(bytes, i + 1, next)
             ELSE next

\* the digits of base UCHAR_MAX + 1 of an unsigned long
RECURSIVE DigitsFrom(_, _)
DigitsFrom(hash, i) ==
    IF i > HASH_LIMBS THEN <<>>
    ELSE <<hash[i] % (UCHAR_MAX + 1), hash[i] \div (UCHAR_MAX + 1)>>
         \o DigitsFrom(hash, i + 1)

Digits(hash) == DigitsFrom(hash, 1)

\* C17: the fingerprint staged for a file is the fold, from 5381, of
\* h := h * 33 + byte modulo 2^64 over the bytes hashed, each byte counted
\* as a number from 0 to 255
C17_FingerprintIsFold ==
    AddSucceeded =>
        /\ Digits(hash_content(last.content))
              = Fold(last.content, 1, Digits(ULong(HASH_SEED)))
        /\ \E i \in LinesFor(last.name) :
              Digits(StagingLines[i].num)
                = Fold(last.content, 1, Digits(ULong(HASH_SEED)))

\* the ids of the records of the commit log
RecordIds(cf) == { Records(cf)[i].id : i \in 1..Len(Records(cf)) }

\* C18: a commit appends its record, then advances the head, then clears
\* the staging area: in every state, between the steps of a commit and
\* after a crash too, each branch head is 0 or the id of a record of the
\* log; a commit that is writing the head has appended its record, and one
\* that is clearing the staging area has advanced the head to it
C18_HeadNeverDangles ==
    /\ \A b \in DOMAIN refs : refs[b] = 0 \/ refs[b] \in RecordIds(commits)
    /\ \A p \in Procs :
         /\ procs[p].pc \in {"ref_open", "ref_write"}
               => procs[p].id \in RecordIds(commits)
         /\ procs[p].pc \in {"clear_open", "clear_write", "return"}
               => /\ procs[p].id \in RecordIds(commits)
                  /\ get_last_commit_id_on_branch(refs, procs[p].branch)
                        = procs[p].id

\* a commit was killed between save_commit and update_branch_ref: the last
\* record of the log is the head of no branch, and its entries are staged
\* still
C18_Witness ==
    /\ last.op = "crash"
    /\ NoneRunning
    /\ Records(commits) # <<>>
    /\ \A b \in DOMAIN refs : refs[b] # LastRecord(commits).id
    /\ StagedLines # <<>>

\* two records of the log carry the same id
DuplicateIds(cf) ==
    \E i, j \in 1..Len(Records(cf)) :
        i < j /\ Records(cf)[i].id = Records(cf)[j].id

\* C19: a commit appends its record under the id it read from
\* get_next_commit_id, whatever was appended to the log since: when another
\* commit that read the same id has appended its record in between, the
\* log holds two records of that id afterwards
C19_RaceOnNextId ==
    [][\A p \in Procs :
          At(p, "save") /\ procs'[p].pc # "save"
            => /\ Len(Records(commits')) = Len(Records(commits)) + 1
               /\ IsPrefix(Records(commits), Records(commits'))
               /\ LastRecord(commits').id = procs[p].id
               /\ procs[p].id \in RecordIds(commits)
                     => DuplicateIds(commits')]_vars

\* no commit is running, the last one returned 0 and the log holds two
\* records of one id
C19_Witness ==
    /\ NoneRunning
    /\ last.op = "commit" /\ last.ret = 0
    /\ DuplicateIds(commits)

\* the lines of a staging file that are entries of filename
EntriesOf(lines, filename) ==
    { i \in 1..Len(lines) :
        lines[i].num # NoNum /\ NameOf(lines[i]) = filename }

Range(s) == { s[i] : i \in 1..Len(s) }

\* C20: the steps of an add act on the staging file as it stands when they
\* run, not as the process saw it: the append adds an entry at the end
\* whatever the file holds, so a name staged since the process looked has
\* two entries afterwards; the rewrite of a re-stage writes back the lines
\* the process read, so an entry another process appended since the read is
\* gone afterwards
C20_StageRace ==
    [][\A p \in Procs :
          /\ At(p, "append") /\ procs'[p].pc = "idle"
                => /\ staging'.lines
                        = StagingLines
                          \o <<EntryLine(procs[p].name, procs[p].hash)>>
                   /\ EntriesOf(StagingLines, procs[p].name) # {}
                        => Cardinality(EntriesOf(staging'.lines,
                                                 procs[p].name)) > 1
          /\ At(p, "remove_write") /\ procs'[p].pc = "append"
                => /\ staging'.lines = procs[p].kept
                   /\ \A l \in Range(StagingLines) \ Range(procs[p].kept) :
                         l \notin Range(staging'.lines)]_vars

\* both cases in one state: process q, re-staging a name, has just written
\* back the lines it read; the file holds two entries for one name, and it
\* lacks the entry of another name that process p staged (its add, the last
\* command it ran, returned 0) after q's read
C20_Witness ==
    \E p, q \in Procs :
        /\ At(p, "idle") /\ "name" \in DOMAIN procs[p]
        /\ procs[p] = Staged(procs[p].name, procs[p].hash)
        /\ At(q, "append")
        /\ procs[q].name # procs[p].name
        /\ EntryLine(procs[p].name, procs[p].hash) \notin Range(StagingLines)
        /\ EntryLine(procs[p].name, procs[p].hash) \notin Range(procs[q].kept)
        /\ \E n \in BlobNames : Cardinality(EntriesOf(StagingLines, n)) > 1

\* the file names of the entries among lines, in the order of the file
EntryNames(lines) ==
    LET entries == SelectSeq(lines, LAMBDA l : l.num # NoNum)
    IN  [i \in 1..Len(entries) |-> NameOf(entries[i])]

\* C21: the entries of the staging area are in the order in which their
\* file names were first staged: an add that succeeds for a name already
\* staged leaves the order of the names as it was, and one for a new name
\* puts it last
C21_RestageKeepsPosition ==
    [][last'.op = "add" /\ last'.ret = 0
         => LET old == EntryNames(StagingLines)
                new == EntryNames(staging'.lines)
            IN  IF last'.name \in Range(old) THEN new = old
                ELSE new = Append(old, last'.name)]_vars

\* the largest number of a finite set of integers, 0 for the empty set
MaxId(S) == IF S = {} THEN 0 ELSE CHOOSE x \in S : \A y \in S : y <= x

\* C22: whatever the commit log holds, get_next_commit_id returns the
\* largest id of its records plus one, and 1 when the file is missing or
\* holds no record (as after init)
C22_NextIdIsMaxPlusOne ==
    get_next_commit_id(commits)
      = {[trap |-> FALSE, id |-> MaxId(RecordIds(commits)) + 1]}

\* C23: the record a successful commit appends carries the branch HEAD
\* names when the commit runs and, as parent_id, the number refs/<branch>
\* holds then; when that is 0 or the branch has no file in refs, the commit
\* succeeds all the same and parent_id is -1
C23_ParentIsHeadAtCommit ==
    [][last'.op = "commit" /\ last'.ret = 0
         => LET b    == IF HEAD.present THEN HEAD.name ELSE "main"
                head == IF b \in DOMAIN refs THEN refs[b] ELSE 0
                rec  == LastRecord(commits')
            IN  /\ Len(Records(commits')) = Len(Records(commits)) + 1
                /\ rec.branch = b
                /\ rec.parent_id = IF head = 0 THEN -1 ELSE head]_vars

\* a commit on a branch that had no file in refs succeeded, with parent -1,
\* after a commit on another branch
C23_Witness ==
    /\ CommitSucceeded
    /\ Len(Records(commits)) = 2
    /\ Records(commits)[1].branch = "main"
    /\ LastRecord(commits).branch = "dev"
    /\ LastRecord(commits).parent_id = -1
    /\ refs["main"] = Records(commits)[1].id

\* the fingerprints the records of the log hold
RecordedHashes(cf) ==
    UNION { Range(Records(cf)[i].file_hashes) : i \in 1..Len(Records(cf)) }

\* C24: a commit that finds more than MAX_COMMIT_FILES entries staged
\* returns 0, appends a record that holds the first MAX_COMMIT_FILES of
\* them in staging order, and leaves no entry staged: the entries after
\* those are in no record of the log
C24_ExtraEntriesDropped ==
    [][last'.op = "commit" /\ Len(StagedLines) > MAX_COMMIT_FILES
         => LET rec == LastRecord(commits')
                stg == StagedLines
            IN  /\ last'.ret = 0
                /\ Len(Records(commits')) = Len(Records(commits)) + 1
                /\ Len(rec.filenames) = MAX_COMMIT_FILES
                /\ Len(rec.file_hashes) = MAX_COMMIT_FILES
                /\ \A i \in 1..MAX_COMMIT_FILES :
                      /\ rec.filenames[i] = Line(NameOf(stg[i]), NoNum)
                      /\ rec.file_hashes[i] = stg[i].num
                /\ SelectSeq(staging'.lines, IsEntry) = <<>>
                /\ \A i \in (MAX_COMMIT_FILES + 1)..Len(stg) :
                      stg[i].num \notin RecordedHashes(commits')]_vars

\* a commit has recorded MAX_COMMIT_FILES entries and cleared the staging
\* area, and the object store holds the blob of an entry that was staged
\* with them and is in no record
C24_Witness ==
    /\ CommitSucceeded
    /\ Len(LastRecord(commits).filenames) = MAX_COMMIT_FILES
    /\ StagedLines = <<>>
    /\ \E h \in DOMAIN objects : h \notin RecordedHashes(commits)

\* C25: the records of the log stay where they are, a crash changes no
\* file, and every record appended carries an id greater than the ids of
\* all the records the log holds, those no head refers to included, and as
\* parent the head its branch has at that time (-1 for none): a record left
\* behind by a crash between save_commit and update_branch_ref keeps its id
\* to itself, and the next commit has the old head as parent
C25_OrphanIdNotReused ==
    [][/\ IsPrefix(Records(commits), Records(commits'))
       /\ (\E p \in Procs : ~At(p, "idle") /\ procs'[p].pc = "idle")
             /\ last'.op = "crash"
            => disk' = disk
       /\ Len(Records(commits')) > Len(Records(commits))
            => LET rec  == LastRecord(commits')
                   head == IF rec.branch \in DOMAIN refs
                           THEN refs[rec.branch] ELSE 0
               IN  /\ \A id \in RecordIds(commits) : rec.id > id
                   /\ rec.parent_id = IF head = 0 THEN -1 ELSE head]_vars

\* the number refs/<b> holds, 0 when there is no such file
HeadOf(rf, b) == IF b \in DOMAIN rf THEN rf[b] ELSE 0

\* the record holds the entries among lines, all of them, in their order
SameEntries(rec, lines) ==
    LET stg == SelectSeq(lines, LAMBDA l : l.num # NoNum)
    IN  /\ rec.filenames = [i \in 1..Len(stg) |-> Line(NameOf(stg[i]), NoNum)]
        /\ rec.file_hashes = [i \in 1..Len(stg) |-> stg[i].num]

\* what a crash between update_branch_ref and clear_staging_area leaves:
\* the head of the current branch is the last record of the log, and the
\* entries staged are the entries of that record
StaleStaging ==
    /\ Records(commits) # <<>>
    /\ HeadOf(refs, get_current_branch(HEAD)) = LastRecord(commits).id
    /\ StagedLines # <<>>
    /\ SameEntries(LastRecord(commits), StagingLines)

\* C26: a commit killed between update_branch_ref and clear_staging_area
\* leaves the head of its branch equal to the id of the last record of the
\* log and the entries of that record staged; a commit that runs from there
\* is given the next id and appends a record with the same entries and the
\* killed commit as parent
C26_CrashBeforeClear ==
    [][\A p \in Procs :
          /\ At(p, "clear_open") /\ procs'[p].pc = "idle"
                => /\ disk' = disk
                   /\ LastRecord(commits').id = procs[p].id
                   /\ HeadOf(refs', procs[p].branch) = procs[p].id
                   /\ SameEntries(LastRecord(commits'), staging'.lines)
          /\ ( /\ StaleStaging /\ At(p, "next_id") /\ procs'[p] # procs[p]
               /\ ~(procs'[p].pc = "idle" /\ last'.op = "crash") )
                => /\ procs'[p].pc = "head"
                   /\ procs'[p].id = LastRecord(commits).id + 1
          /\ StaleStaging /\ At(p, "save") /\ procs'[p].pc = "ref_open"
                => /\ LastRecord(commits').id = LastRecord(commits).id + 1
                   /\ LastRecord(commits').parent_id = LastRecord(commits).id
                   /\ LastRecord(commits').filenames
                        = LastRecord(commits).filenames
                   /\ LastRecord(commits').file_hashes
                        = LastRecord(commits).file_hashes]_vars

\* an add of a working file that is not there, or that fopen or fread
\* cannot read
AddOfUnreadable ==
    \E filename \in BlobNames :
        \/ mygit_add(filename, NoFile)
        \/ \E file \in StageFiles \ {NoFile}, f \in ReadFaults :
              mygit_add_io(filename, file, f)

\* C27: an add of a file that does not exist or cannot be read returns -1
\* and leaves the object store, the staging area, the commit log, HEAD and
\* the branch heads as they were
C27_MissingFileRejected ==
    [][AddOfUnreadable
         => last'.op = "add" /\ last'.ret = -1 /\ disk' = disk]_vars

\* the fingerprints the entries of the staging area hold
StagedHashes == { StagedLines[i].num : i \in 1..Len(StagedLines) }

\* C28: in every state, every fingerprint of an entry of the staging area
\* and every fingerprint of an entry of a record of the log is the name of
\* a blob of the object store
C28_FingerprintsHaveBlobs ==
    /\ StagedHashes \subseteq DOMAIN objects
    /\ RecordedHashes(commits) \subseteq DOMAIN objects

\* C29: every blob of the object store is stored under the fingerprint of
\* the content it holds, after any sequence of adds
C29_BlobsNamedByFingerprint ==
    \A h \in DOMAIN objects : hash_content(objects[h]) = h

\* two blobs are stored, neither is empty, and the add that has just
\* succeeded wrote one of them
C29_Witness ==
    /\ AddSucceeded
    /\ last.wrote
    /\ last.content # <<>>
    /\ \E h \in DOMAIN objects :
          h # hash_content(last.content) /\ objects[h] # <<>>

\* C30: every record of the log holds at least one entry and at most
\* MAX_COMMIT_FILES entries, whatever lines the staging area held when the
\* commit counted them
C30_RecordsHoldOneToTenEntries ==
    \A i \in 1..Len(Records(commits)) :
        /\ Len(Records(commits)[i].filenames) >= 1
        /\ Len(Records(commits)[i].filenames) <= MAX_COMMIT_FILES

\* the entries of lines, in order, that are not entries of filename
OtherEntries(lines, filename) ==
    SelectSeq(lines, LAMBDA l : l.num # NoNum /\ NameOf(l) # filename)

\* C31: an add of a file name leaves the entries of every other file name,
\* their fingerprints and their order as they were, and leaves the commit
\* log and the branch heads unchanged
C31_AddChangesOneEntry ==
    [][last'.op = "add"
         => /\ OtherEntries(IF staging'.present THEN staging'.lines ELSE <<>>,
                            last'.name)
                 = OtherEntries(StagingLines, last'.name)
            /\ commits' = commits
            /\ refs' = refs]_vars

\* C32: init in a directory that holds a repository returns 0 and leaves
\* the object store, the staging area, the commit log, HEAD and every
\* branch head as they were
C32_InitKeepsRepository ==
    [][repo /\ last'.op = "init"
         => /\ last'.ret = 0
            /\ disk' = disk]_vars

\* init has just returned 0 in a repository that holds a record, a staged
\* entry and a blob, with a branch head that is not 0
C32_Witness ==
    /\ last.op = "init"
    /\ last.ret = 0
    /\ Records(commits) # <<>>
    /\ StagedEntries # <<>>
    /\ DOMAIN objects # {}
    /\ \E b \in DOMAIN refs : refs[b] # 0

====
